---- MODULE Spec2Model ----
(***************************************************************************)
(* Model of src/ka-cctv-client.js: the two-layer signed, hybrid-encrypted  *)
(* request envelope of the port API clients.  The file holds two clients:  *)
(* the CCTV client (lines 1-369, request at 146) and the API client        *)
(* (lines 371-715, request at 547 and downloadFile at 633).  Spec is the   *)
(* two clients' request functions called by any caller, BatchSpec the      *)
(* CCTV client's batch over ports and cameras (lines 227-303).             *)
(*                                                                         *)
(* Strings are sequences of one-character strings.  The hash, the          *)
(* asymmetric wrap and the block cipher of the sm-crypto / crypto          *)
(* libraries are ideal primitives: a digest is the record of its algorithm *)
(* and preimage, a ciphertext the record of its key material and           *)
(* plaintext.                                                              *)
(***************************************************************************)
EXTENDS Integers, Sequences, FiniteSets, TLC

VARIABLES clock, seed, rngCount, calls, wire, busy, batch

vars == <<clock, seed, rngCount, calls, wire, busy, batch>>

(***************************************************************************)
(* Bounds of the model.                                                    *)
(***************************************************************************)
MaxCalls == 2
ClockStart == 1999
MaxTicks == 2
MaxBatchCalls == 4

(***************************************************************************)
(* String helpers (JavaScript String methods).                             *)
(***************************************************************************)
\* String.prototype.indexOf for a single character, 0-based, -1 when absent.
IndexOf(s, ch) ==
    IF \E k \in 1..Len(s) : s[k] = ch
    THEN (CHOOSE k \in 1..Len(s) : s[k] = ch /\ \A j \in 1..(k - 1) : s[j] # ch) - 1
    ELSE -1

Clamp(n, len) == IF n < 0 THEN 0 ELSE IF n > len THEN len ELSE n

\* String.prototype.substring(start, end): arguments clamped to [0, length],
\* swapped when start > end.
Substring(s, start, end) ==
    LET a == Clamp(start, Len(s))
        b == Clamp(end, Len(s))
        lo == IF a <= b THEN a ELSE b
        hi == IF a <= b THEN b ELSE a
    IN  SubSeq(s, lo + 1, hi)

\* String.prototype.slice(0, n) for n >= 0.
Slice0(s, n) == SubSeq(s, 1, Clamp(n, Len(s)))

RECURSIVE Repeat(_, _)
Repeat(ch, n) == IF n <= 0 THEN <<>> ELSE <<ch>> \o Repeat(ch, n - 1)

\* String.prototype.padStart(n, ch).
PadStart(s, n, ch) == Repeat(ch, n - Len(s)) \o s

Digits == <<"0", "1", "2", "3", "4", "5", "6", "7", "8", "9">>

\* Number.prototype.toString() of a non-negative integer.
RECURSIVE NatToString(_)
NatToString(n) ==
    IF n < 10 THEN <<Digits[n + 1]>>
    ELSE NatToString(n \div 10) \o <<Digits[(n % 10) + 1]>>

\* (ms / 1000).toFixed(3) of a non-negative integer ms.
ToFixed3(ms) ==
    NatToString(ms \div 1000) \o <<".">> \o PadStart(NatToString(ms % 1000), 3, "0")

\* The part of a decimal string before its point (the whole string without one).
IntegerPart(s) == IF IndexOf(s, ".") < 0 THEN s ELSE Substring(s, 0, IndexOf(s, "."))

(***************************************************************************)
(* Configuration.                                                          *)
(***************************************************************************)
\* Text that the code never takes apart is kept as one fragment.
CONFIG ==
    [ baseUrl      |-> <<"https://i.ka.sz.gov.cn">>,
      aepAppKey    |-> <<"y", "s", "x", "t">>,
      aepSecret    |-> <<"7", "9", "1", "6", "8", "5", "0", "5", "7", "0", "2", "9", "8",
                         "6", "5", "4", "7", "3">>,
      sm2PublicKey |-> <<"04957D171CF9866FAD456FC18578E2F31D07244EC9828E17B990BB7A6F1EF520255A776ADAFC64FD8B9ECA59F4159402DCE0AB6E3AB1D74DCD60B363280F1443E8">> ]

(***************************************************************************)
(* Math.random().  The generator is a deterministic stream fixed by its    *)
(* hidden state (seed); a value is given by the two renderings the code    *)
(* takes of it: the four hex digits of floor((1 + r) * 0x10000) after the  *)
(* leading 1, and (r * 10^10).toString(16).                                *)
(*   r = 0.0314159265      : "080a", "12b9b0a0.f..."                       *)
(*   r = 0.5               : "8000", "12a05f200"  (no fractional part)    *)
(*   r = 1e-11             : "0000", "0.1..."     (below 1)               *)
(*   r = 0.000123456789012 : "0008", "12d687.e..."                         *)
(*   r = 0.271828182845    : "4596", "a205b064.7..."                       *)
(***************************************************************************)
RandomTable ==
    << [ hex4 |-> <<"0", "8", "0", "a">>,
         str16 |-> <<"1", "2", "b", "9", "b", "0", "a", "0", ".", "f">> ],
       [ hex4 |-> <<"8", "0", "0", "0">>,
         str16 |-> <<"1", "2", "a", "0", "5", "f", "2", "0", "0">> ],
       [ hex4 |-> <<"0", "0", "0", "0">>,
         str16 |-> <<"0", ".", "1">> ],
       [ hex4 |-> <<"0", "0", "0", "8">>,
         str16 |-> <<"1", "2", "d", "6", "8", "7", ".", "e">> ],
       [ hex4 |-> <<"4", "5", "9", "6">>,
         str16 |-> <<"a", "2", "0", "5", "b", "0", "6", "4", ".", "7">> ] >>

\* The streams considered: one that walks the table, one that repeats its
\* first value, one that repeats the value without fractional part.
Seeds ==
    { [start |-> 0, stride |-> 1], [start |-> 0, stride |-> 0],
      [start |-> 1, stride |-> 0] }

\* The i-th value (i = 0, 1, ...) the stream of seed sd yields.
Random(sd, i) == RandomTable[((sd.start + i * sd.stride) % Len(RandomTable)) + 1]

\* generateUUID, reading draws i .. i+7 of the stream.
GenerateUUID(sd, i) ==
    LET hex(k) == Random(sd, i + k).hex4
    IN  hex(0) \o hex(1) \o <<"-">> \o hex(2) \o <<"-">> \o hex(3) \o <<"-">> \o hex(4)
          \o <<"-">> \o hex(5) \o hex(6) \o hex(7)

UUIDDraws == 8

\* The while loop of randomHex from draw i on.  idle counts the consecutive
\* draws that added nothing: once a whole period of the stream added nothing
\* the loop never ends (done = FALSE).
RECURSIVE RandomHexLoop(_, _, _, _, _)
RandomHexLoop(sd, length, result, i, idle) ==
    IF Len(result) >= length THEN [done |-> TRUE, result |-> result, next |-> i]
    ELSE IF idle >= Len(RandomTable) THEN [done |-> FALSE, result |-> result, next |-> i]
    ELSE LET rand == Random(sd, i).str16
             piece == Substring(rand, 0, IndexOf(rand, "."))
         IN  RandomHexLoop(sd, length, result \o piece, i + 1,
                           IF piece = <<>> THEN idle + 1 ELSE 0)

\* randomHex(length), reading the stream from draw i on.
RandomHex(sd, length, i) ==
    LET loop == RandomHexLoop(sd, length, <<>>, i, 0)
    IN  [ done   |-> loop.done,
          result |-> PadStart(Slice0(loop.result, length), length, "0"),
          next   |-> loop.next ]

KeyHexLength == 32

(***************************************************************************)
(* JavaScript values that travel as request data or response body.  A      *)
(* string is plain text or the hex ciphertext of SM4-CBC (enc = TRUE: text *)
(* is then the plaintext, key and iv the key material it is under).  An    *)
(* object is given by its canonical JSON text.                             *)
(***************************************************************************)
JsString(chars) ==
    [type |-> "string", enc |-> FALSE, text |-> chars, key |-> <<>>, iv |-> <<>>]

JsObject(json) ==
    [type |-> "object", enc |-> FALSE, text |-> json, key |-> <<>>, iv |-> <<>>]

JsBuffer(bytes) ==
    [type |-> "buffer", enc |-> FALSE, text |-> bytes, key |-> <<>>, iv |-> <<>>]

Undefined ==
    [type |-> "undefined", enc |-> FALSE, text |-> <<>>, key |-> <<>>, iv |-> <<>>]

CipherBlockBytes == 16

\* String.prototype.length: a ciphertext is two hex digits per byte of the
\* PKCS#5-padded plaintext.
Length(v) ==
    IF v.enc
    THEN 2 * CipherBlockBytes * ((Len(v.text) \div CipherBlockBytes) + 1)
    ELSE Len(v.text)

\* An object that refers to itself: typeof gives 'object', JSON.stringify
\* throws a TypeError on it.
Cyclic ==
    [type |-> "cyclic", enc |-> FALSE, text |-> <<>>, key |-> <<>>, iv |-> <<>>]

EmptyObject == JsObject(<<"{", "}">>)
PortQuery == JsObject(<<"{", "n", ":", "1", "}">>)
\* The document {rows: [...]} of /open/port; {videoPic: ...} of
\* /open/port/getPortMonitorPic.
RowsObject == JsObject(<<"{", "r", ":", "[", "]", "}">>)
PicObject == JsObject(<<"{", "v", ":", "u", "}">>)

\* JSON.stringify of an object: its canonical text.
JsonStringify(v) == v.text

\* JSON.stringify throws on an object that refers to itself.
JsonStringifyThrows(v) == v.type = "cyclic"

\* The texts JSON.parse accepts, with the value each yields; every other
\* text makes it throw a SyntaxError.
JsonTexts ==
    { <<EmptyObject.text, EmptyObject>>,
      <<PortQuery.text, PortQuery>>,
      <<RowsObject.text, RowsObject>>,
      <<PicObject.text, PicObject>>,
      <<<<" ", "{", "}">>, EmptyObject>> }

JsonParses(text) == \E p \in JsonTexts : p[1] = text

JsonParse(text) == (CHOOSE p \in JsonTexts : p[1] = text)[2]

(***************************************************************************)
(* Primitives of the crypto and sm-crypto libraries.                       *)
(***************************************************************************)
\* crypto.createHash('sha256').update(s).digest('hex')
Sha256Hex(s) == [alg |-> "SHA256", input |-> s, hexcase |-> "lower"]

\* sm3(s)
Sm3Hex(s) == [alg |-> "SM3", input |-> s, hexcase |-> "lower"]

\* String.prototype.toUpperCase on a hex digest or ciphertext.
ToUpperCase(d) == [d EXCEPT !.hexcase = "upper"]

\* sm2.doEncrypt(msg, publicKey, 1)
Sm2DoEncrypt(msg, publicKey) ==
    [alg |-> "SM2", pub |-> publicKey, msg |-> msg, hexcase |-> "lower"]

\* sm4.encrypt(plaintext, key, {mode: 'cbc', padding: 'pkcs#5', iv})
Sm4CbcEncrypt(plaintext, key, iv) ==
    [type |-> "string", enc |-> TRUE, text |-> plaintext, key |-> key, iv |-> iv]

\* What sm4.decrypt can do with a body that is no ciphertext under (key, iv):
\* raise its Error('padding is invalid'), or hand back the bytes it got.
Sm4BadOutcomes == {"throws", "garbage"}

Garbage == <<"?", "?">>

\* sm4.decrypt(ciphertext, key, {mode: 'cbc', padding: 'pkcs#5', iv}); bad
\* chooses among Sm4BadOutcomes.
Sm4CbcDecrypt(ciphertext, key, iv, bad) ==
    IF ciphertext.enc /\ ciphertext.key = key /\ ciphertext.iv = iv
    THEN [threw |-> FALSE, error |-> "", text |-> ciphertext.text]
    ELSE IF bad = "throws"
    THEN [threw |-> TRUE, error |-> "Error", text |-> <<>>]
    ELSE [threw |-> FALSE, error |-> "", text |-> Garbage]

(***************************************************************************)
(* AEP layer.                                                              *)
(***************************************************************************)
\* Variant: the closing timestamp of the sandwich left out.
generateAepSignature_NoClosingTimestamp(timestamp, appKey, nonce, secret) ==
    LET signStr == timestamp \o appKey \o nonce \o secret
    IN  ToUpperCase(Sha256Hex(signStr))

generateAepSignature(timestamp, appKey, nonce, secret) ==
    LET signStr == timestamp \o appKey \o nonce \o secret \o timestamp
    IN  ToUpperCase(Sha256Hex(signStr))

\* generateAepHeaders with Date.now() = now, drawing from draw i on.
generateAepHeaders(now, sd, i) ==
    LET timestamp == ToFixed3(now)
        nonce == GenerateUUID(sd, i)
        signature ==
            generateAepSignature(timestamp, CONFIG.aepAppKey, nonce, CONFIG.aepSecret)
    IN  [ h \in {"x-aep-appkey", "x-aep-timestamp", "x-aep-nonce", "x-aep-signature"} |->
            CASE h = "x-aep-appkey" -> CONFIG.aepAppKey
              [] h = "x-aep-timestamp" -> timestamp
              [] h = "x-aep-nonce" -> nonce
              [] h = "x-aep-signature" -> signature ]

(***************************************************************************)
(* KA layer.                                                               *)
(***************************************************************************)
\* Variant: the nonce put first.
generateKaSignature_NonceFirst(nonce, timestamp) ==
    LET signStr == nonce \o NatToString(timestamp) \o NatToString(timestamp)
    IN  ToUpperCase(Sm3Hex(signStr))

\* timestamp is a number: timestamp + nonce + timestamp converts it to text.
generateKaSignature(nonce, timestamp) ==
    LET signStr == NatToString(timestamp) \o nonce \o NatToString(timestamp)
    IN  ToUpperCase(Sm3Hex(signStr))

Marker04 == <<"0", "4">>

\* Variant: iv and key in the other order.
encryptKeyWithSm2_IvFirst(key, iv) ==
    LET plaintext == iv \o <<"&">> \o key
        ciphertext == Sm2DoEncrypt(plaintext, CONFIG.sm2PublicKey)
    IN  [marker |-> Marker04, body |-> ToUpperCase(ciphertext)]

encryptKeyWithSm2(key, iv) ==
    LET plaintext == key \o <<"&">> \o iv
        ciphertext == Sm2DoEncrypt(plaintext, CONFIG.sm2PublicKey)
    IN  [marker |-> Marker04, body |-> ToUpperCase(ciphertext)]

\* The value generateKaHeaders returns for the timestamp, nonce, key and iv
\* it generated (key and iv as RandomHex gives them).
KaHeadersOf(timestamp, nonce, key, iv) ==
    [ done |-> key.done /\ iv.done,
      next |-> IF key.done THEN iv.next ELSE key.next,
      headers |->
        [ h \in {"x-ka-timestamp", "x-ka-nonce", "x-ka-signature", "x-ka-t"} |->
            CASE h = "x-ka-timestamp" -> NatToString(timestamp)
              [] h = "x-ka-nonce" -> nonce
              [] h = "x-ka-signature" -> generateKaSignature(nonce, timestamp)
              [] h = "x-ka-t" -> encryptKeyWithSm2(key.result, iv.result) ],
      key |-> key.result,
      iv |-> iv.result ]

\* The iv is drawn after the key.
KaHeadersWithKey(sd, timestamp, nonce, key) ==
    KaHeadersOf(timestamp, nonce, key, RandomHex(sd, KeyHexLength, key.next))

\* generateKaHeaders with Date.now() = now, drawing from draw i on.  done is
\* FALSE when a randomHex loop never ends; next is the first draw left unread.
generateKaHeaders(now, sd, i) ==
    KaHeadersWithKey(sd, now \div 1000, GenerateUUID(sd, i),
                     RandomHex(sd, KeyHexLength, i + UUIDDraws))

(***************************************************************************)
(* SM4 payload cipher.                                                     *)
(***************************************************************************)
\* Variant: key and iv passed in the other order.
sm4Encrypt_KeyIvSwapped(data, key, iv) ==
    LET plaintext == IF data.type = "string" THEN data.text ELSE JsonStringify(data)
    IN  Sm4CbcEncrypt(plaintext, iv, key)

sm4Encrypt(data, key, iv) ==
    LET plaintext == IF data.type = "string" THEN data.text ELSE JsonStringify(data)
    IN  Sm4CbcEncrypt(plaintext, key, iv)

\* sm4Encrypt throws what JSON.stringify throws (line 515).
sm4EncryptThrows(data) == data.type # "string" /\ JsonStringifyThrows(data)

sm4Decrypt(ciphertext, key, iv, bad) == Sm4CbcDecrypt(ciphertext, key, iv, bad)

\* Object spread {...f, ...g}: the later property wins.
Spread(f, g) ==
    [h \in (DOMAIN f) \cup (DOMAIN g) |-> IF h \in DOMAIN g THEN g[h] ELSE f[h]]

(***************************************************************************)
(* Calls.  A call is one invocation of request (API client, line 547),     *)
(* cctvRequest (the CCTV client's request, line 146) or downloadFile.      *)
(* The code before the await runs without interruption on the one          *)
(* JavaScript thread; the clock may advance between its two Date.now()     *)
(* reads.  The call then waits for axios (state "Sent") and its            *)
(* continuation runs when axios settles.                                   *)
(***************************************************************************)
CallIds == 1..MaxCalls

Pending == [kind |-> "pending", value |-> Undefined, error |-> [name |-> "", code |-> ""]]

Returned(v) == [kind |-> "returned", value |-> v, error |-> [name |-> "", code |-> ""]]

Thrown(name, code) ==
    [kind |-> "thrown", value |-> Undefined, error |-> [name |-> name, code |-> code]]

IdleCall ==
    [ fn |-> "none", state |-> "Idle", data |-> Undefined,
      aepHeaders |-> <<>>, kaHeaders |-> <<>>, key |-> <<>>, iv |-> <<>>,
      encryptedData |-> Undefined, draws |-> <<0, 0>>, reads |-> <<0, 0>>,
      response |-> Undefined, decryptCalls |-> <<>>, parseCalls |-> <<>>,
      logged |-> <<>>, outcome |-> Pending ]

RequestTimeout == 30000

\* The headers request adds to the two layers' headers.
RequestFixedHeaders ==
    [ h \in {"Content-Type", "Accept", "Origin", "Referer"} |->
        CASE h = "Content-Type" -> <<"application/json">>
          [] h = "Accept" -> <<"application/json, text/plain, */*">>
          [] h = "Origin" -> CONFIG.baseUrl
          [] h = "Referer" -> CONFIG.baseUrl ]

\* The headers downloadFile adds.
DownloadFixedHeaders(fileId) ==
    [ h \in {"Content-Type", "x-ka-fileid"} |->
        CASE h = "Content-Type" -> <<"application/json">>
          [] h = "x-ka-fileid" -> fileId ]

Paths == { <<"/open/port">> }

\* The data request is called with: an object, a string, an object that
\* cannot be serialized.
RequestData == { PortQuery, JsString(<<"o", "k">>), Cyclic }

FileIds == { <<"f", "1">> }

\* The console.log lines of request that print key material (572-573); the
\* other two functions print nothing.
KeyLogLines(fn, key, iv) ==
    IF fn = "request"
    THEN << [label |-> "SM4 Key:", value |-> key], [label |-> "SM4 IV:", value |-> iv] >>
    ELSE <<>>

\* The local variables of a call whose two layers gave aep and ka, from
\* the clock reads now1 and now2.  A randomHex loop that never ends leaves
\* the call "Hung"; an error of sm4Encrypt ends it before anything is logged
\* or sent.
CallOf(fn, data, aep, ka, now1, now2) ==
    [ IdleCall EXCEPT
        !.fn = fn,
        !.state = IF ~ka.done THEN "Hung"
                  ELSE IF sm4EncryptThrows(data) THEN "Done" ELSE "Sent",
        !.data = data,
        !.aepHeaders = aep,
        !.kaHeaders = ka.headers,
        !.key = ka.key,
        !.iv = ka.iv,
        !.encryptedData = IF sm4EncryptThrows(data) THEN Undefined
                          ELSE sm4Encrypt(data, ka.key, ka.iv),
        !.draws = <<rngCount, ka.next>>,
        !.reads = <<now1, now2>>,
        !.logged = IF ka.done /\ ~sm4EncryptThrows(data)
                   THEN KeyLogLines(fn, ka.key, ka.iv) ELSE <<>>,
        !.outcome = IF ka.done /\ sm4EncryptThrows(data)
                    THEN Thrown("TypeError", "") ELSE Pending ]

\* The KA headers and key material of the latest call, with the draws of ka.
KeptFrom(prev, ka) ==
    [ka EXCEPT !.headers = prev.kaHeaders, !.key = prev.key, !.iv = prev.iv]

\* Variant: the KA headers and key material of the latest call are kept and
\* used again instead of being generated.
BuiltCall_KeptContext(fn, data, now1, now2) ==
    IF Len(wire) > 0
    THEN CallOf(fn, data, generateAepHeaders(now1, seed, rngCount),
                KeptFrom(calls[wire[Len(wire)].call],
                         generateKaHeaders(now2, seed, rngCount + UUIDDraws)),
                now1, now2)
    ELSE CallOf(fn, data, generateAepHeaders(now1, seed, rngCount),
                generateKaHeaders(now2, seed, rngCount + UUIDDraws), now1, now2)

\* The local variables of a call once its headers and body are built.
\* now1 and now2 are the two Date.now() reads.
BuiltCall(fn, data, now1, now2) ==
    CallOf(fn, data, generateAepHeaders(now1, seed, rngCount),
           generateKaHeaders(now2, seed, rngCount + UUIDDraws), now1, now2)

\* The axios config of request (both clients).
RequestExchange(c, call, path) ==
    [ call |-> c, method |-> "POST",
      url |-> CONFIG.baseUrl \o <<"/local/ika-api">> \o path,
      headers |-> Spread(Spread(call.aepHeaders, call.kaHeaders), RequestFixedHeaders),
      data |-> call.encryptedData,
      timeout |-> RequestTimeout,
      responseType |-> "json" ]

\* The axios config of downloadFile: no timeout is set (axios default 0: none).
DownloadExchange(c, call, fileId) ==
    [ call |-> c, method |-> "POST",
      url |-> CONFIG.baseUrl \o <<"/local/ika-api/file/download">>,
      headers |-> Spread(Spread(call.aepHeaders, call.kaHeaders),
                         DownloadFixedHeaders(fileId)),
      data |-> call.encryptedData,
      timeout |-> 0,
      responseType |-> "arraybuffer" ]

\* A call starts: the next free call id, the thread not stuck in a loop.
CanStart(c) ==
    /\ ~busy
    /\ calls[c].state = "Idle"
    /\ \A b \in CallIds : b < c => calls[b].state # "Idle"

\* Variant: axios is called whatever the outcome of the encryption.
Started_SendsAnyway(c, call, exchange) ==
    /\ calls' = [calls EXCEPT ![c] = call]
    /\ clock' = call.reads[2]
    /\ rngCount' = call.draws[2]
    /\ busy' = (busy \/ call.state = "Hung")
    /\ wire' = IF call.state = "Hung" THEN wire ELSE Append(wire, exchange)
    /\ UNCHANGED <<seed, batch>>

\* The state after the synchronous part of a call: axios is called when
\* nothing threw before it.
Started(c, call, exchange) ==
    /\ calls' = [calls EXCEPT ![c] = call]
    /\ clock' = call.reads[2]
    /\ rngCount' = call.draws[2]
    /\ busy' = (busy \/ call.state = "Hung")
    /\ wire' = IF call.state = "Sent" THEN Append(wire, exchange) ELSE wire
    /\ UNCHANGED <<seed, batch>>

ClockSteps(d) == d \in 0..1 /\ clock + d <= ClockStart + MaxTicks

StartedRequest(c, call, path) == Started(c, call, RequestExchange(c, call, path))

StartedDownload(c, call, fileId) == Started(c, call, DownloadExchange(c, call, fileId))

\* request of the API client, up to its await.
Request(c, path, data, d) ==
    /\ CanStart(c)
    /\ ClockSteps(d)
    /\ StartedRequest(c, BuiltCall("request", data, clock, clock + d), path)

\* request of the CCTV client, up to its await.
CctvRequest(c, path, data, d) ==
    /\ CanStart(c)
    /\ ClockSteps(d)
    /\ StartedRequest(c, BuiltCall("cctvRequest", data, clock, clock + d), path)

\* downloadFile, up to its await.
DownloadFile(c, fileId, d) ==
    /\ CanStart(c)
    /\ ClockSteps(d)
    /\ StartedDownload(c, BuiltCall("downloadFile", EmptyObject, clock, clock + d), fileId)

\* Date.now() advances.
Tick ==
    /\ clock < ClockStart + MaxTicks
    /\ clock' = clock + 1
    /\ UNCHANGED <<seed, rngCount, calls, wire, busy, batch>>

(***************************************************************************)
(* The server and the transport.                                           *)
(***************************************************************************)
\* The exchange a call put on the wire.
ExchangeOf(c) == wire[CHOOSE k \in 1..Len(wire) : wire[k].call = c]

\* The server's unwrap of the x-ka-t header: strip the marker, decrypt under
\* the private key of CONFIG.sm2PublicKey, split at "&".
ServerUnwrap(wrapped) ==
    LET msg == wrapped.body.msg
        amp == IndexOf(msg, "&")
    IN  [ ok  |-> wrapped.marker = Marker04 /\ wrapped.body.pub = CONFIG.sm2PublicKey
                   /\ amp >= 0,
          key |-> Substring(msg, 0, amp),
          iv  |-> Substring(msg, amp + 1, Len(msg)) ]

\* What the server can answer a request with.
Replies == {"json", "text", "echo", "otherKey", "malformed", "empty", "object"}

\* The body axios resolves a request with: a ciphertext of JSON or of other
\* text under the key material the server unwrapped, the request body
\* decrypted and encrypted again under that key material, a ciphertext under
\* other key material, malformed hex, the empty string, an object (a JSON
\* body, which axios parses).
ResponseBody(exchange, reply) ==
    LET km == ServerUnwrap(exchange.headers["x-ka-t"])
    IN  CASE reply = "json" -> Sm4CbcEncrypt(RowsObject.text, km.key, km.iv)
          [] reply = "pic" -> Sm4CbcEncrypt(PicObject.text, km.key, km.iv)
          [] reply = "text" -> Sm4CbcEncrypt(<<"o", "k">>, km.key, km.iv)
          [] reply = "echo" ->
                Sm4CbcEncrypt(Sm4CbcDecrypt(exchange.data, km.key, km.iv, "throws").text,
                              km.key, km.iv)
          [] reply = "otherKey" ->
                Sm4CbcEncrypt(RowsObject.text, km.iv, <<"0">> \o km.key)
          [] reply = "malformed" -> JsString(<<"z", "z">>)
          [] reply = "empty" -> JsString(<<>>)
          [] reply = "object" -> RowsObject

DownloadBodies == { JsBuffer(<<"b", "i", "n">>) }

\* Variant: the key material is kept in a variable the calls share, which
\* holds that of the call started last.
ResponseKeyMaterial_LatestCall(call) ==
    [key |-> calls[wire[Len(wire)].call].key, iv |-> calls[wire[Len(wire)].call].iv]

\* Variant: key and iv passed in the other order.
ResponseKeyMaterial_Swapped(call) == [key |-> call.iv, iv |-> call.key]

\* The key material the continuation of request decrypts with: the key and
\* iv destructured from generateKaHeaders() in the same invocation.
ResponseKeyMaterial(call) == [key |-> call.key, iv |-> call.iv]

\* Variant: the length test left out.
ShouldDecrypt_AnyString(body) == body.type = "string"

\* The test guarding decryption: typeof response.data === 'string' &&
\* response.data.length > 0.
ShouldDecrypt(body) == body.type = "string" /\ Length(body) > 0

\* request of the API client after axios resolved with response.data = body
\* (lines 585-603; an error of sm4Decrypt passes the catch at 604, which
\* rethrows it).
requestOnResolve(call, body, bad) ==
    IF ShouldDecrypt(body)
    THEN LET km == ResponseKeyMaterial(call)
             decryptedData == sm4Decrypt(body, km.key, km.iv, bad)
             decrypted ==
                 [ call EXCEPT
                     !.state = "Done",
                     !.response = body,
                     !.decryptCalls = Append(@, [data |-> body, key |-> km.key,
                                                 iv |-> km.iv]) ]
         IN  IF decryptedData.threw
             THEN [decrypted EXCEPT !.outcome = Thrown(decryptedData.error, "")]
             ELSE [ decrypted EXCEPT
                      !.parseCalls = Append(@, decryptedData.text),
                      !.outcome =
                          IF JsonParses(decryptedData.text)
                          THEN Returned(JsonParse(decryptedData.text))
                          ELSE Returned(JsString(decryptedData.text)) ]
    ELSE [call EXCEPT !.state = "Done", !.response = body, !.outcome = Returned(body)]

\* request of the CCTV client after axios resolved (lines 168-173).
cctvRequestOnResolve(call, body, bad) ==
    IF ShouldDecrypt(body)
    THEN LET km == ResponseKeyMaterial(call)
             decryptedData == sm4Decrypt(body, km.key, km.iv, bad)
             decrypted ==
                 [ call EXCEPT
                     !.state = "Done",
                     !.response = body,
                     !.decryptCalls = Append(@, [data |-> body, key |-> km.key,
                                                 iv |-> km.iv]) ]
         IN  IF decryptedData.threw
             THEN [decrypted EXCEPT !.outcome = Thrown(decryptedData.error, "")]
             ELSE [ decrypted EXCEPT
                      !.parseCalls = Append(@, decryptedData.text),
                      !.outcome =
                          IF JsonParses(decryptedData.text)
                          THEN Returned(JsonParse(decryptedData.text))
                          ELSE Thrown("SyntaxError", "") ]
    ELSE [call EXCEPT !.state = "Done", !.response = body, !.outcome = Returned(body)]

\* downloadFile after axios resolved (line 654).
downloadFileOnResolve(call, body) ==
    [call EXCEPT !.state = "Done", !.response = body, !.outcome = Returned(body)]

\* A call whose await rejected: request logs and rethrows (604-612), the
\* other two let the error pass.
onReject(call, code) ==
    [call EXCEPT !.state = "Done", !.outcome = Thrown("AxiosError", code)]

Settle(c, call) ==
    /\ calls' = [calls EXCEPT ![c] = call]
    /\ UNCHANGED <<clock, seed, rngCount, wire, busy, batch>>

Waiting(c, fn) == ~busy /\ calls[c].state = "Sent" /\ calls[c].fn = fn

RequestResolve(c, reply, bad) ==
    /\ Waiting(c, "request")
    /\ Settle(c, requestOnResolve(calls[c], ResponseBody(ExchangeOf(c), reply), bad))

CctvRequestResolve(c, reply, bad) ==
    /\ Waiting(c, "cctvRequest")
    /\ Settle(c, cctvRequestOnResolve(calls[c], ResponseBody(ExchangeOf(c), reply), bad))

DownloadFileResolve(c, body) ==
    /\ Waiting(c, "downloadFile")
    /\ body \in DownloadBodies
    /\ Settle(c, downloadFileOnResolve(calls[c], body))

\* axios rejects: no connection (ERR_NETWORK) or a status outside 2xx
\* (ERR_BAD_RESPONSE).
RejectCodes == {"ERR_NETWORK", "ERR_BAD_RESPONSE"}

AxiosReject(c, code) ==
    /\ ~busy
    /\ calls[c].state = "Sent"
    /\ code \in RejectCodes
    /\ Settle(c, onReject(calls[c], code))

\* The timer axios arms when the config sets a timeout expires.
AxiosTimeout(c) ==
    /\ ~busy
    /\ calls[c].state = "Sent"
    /\ ExchangeOf(c).timeout > 0
    /\ Settle(c, onReject(calls[c], "ECONNABORTED"))

(***************************************************************************)
(* The batch of the CCTV client: getAllPortsCCTV (line 283) lists the      *)
(* ports and calls getPortCCTVImages (line 227) for each, which calls      *)
(* getMonitorPic (line 214) for each camera of the port.  Every await      *)
(* suspends the batch until axios settles the call in flight; the code     *)
(* from one await to the next runs without interruption.                   *)
(***************************************************************************)
BatchCallIds == 1..MaxBatchCalls

CameraCodes == {"a", "b", "c"}

\* An array value, given by its elements.
JsArray(list) ==
    [type |-> "array", enc |-> FALSE, text |-> list, key |-> <<>>, iv |-> <<>>]

\* The texts JSON.parse (line 238) turns into an array of cameras: "[", the
\* cameras separated by ",", "]".
IsCameraArrayText(t) ==
    /\ Len(t) >= 2
    /\ t[1] = "["
    /\ t[Len(t)] = "]"
    /\ \/ Len(t) = 2
       \/ /\ Len(t) % 2 = 1
          /\ \A i \in 2..(Len(t) - 1) :
                IF i % 2 = 0 THEN t[i] \in CameraCodes ELSE t[i] = ","

CameraArrayOf(t) ==
    IF Len(t) = 2 THEN <<>> ELSE [i \in 1..((Len(t) - 1) \div 2) |-> [code |-> t[2 * i]]]

Port(id, json) == [null |-> FALSE, id |-> id, entryAndExitJson |-> json]

NullPort == [null |-> TRUE, id |-> "", entryAndExitJson |-> Undefined]

\* The camera list getPortCCTVImages iterates (lines 235-247).  A string
\* that is not JSON gives the empty list; JSON text of a value that is no
\* array gives a value for...of cannot iterate (throws: a TypeError).
entryAndExitList(port) ==
    LET json == port.entryAndExitJson
    IN  IF json.type = "string"
        THEN IF IsCameraArrayText(json.text)
             THEN [throws |-> FALSE, list |-> CameraArrayOf(json.text)]
             ELSE IF JsonParses(json.text)
             THEN [throws |-> TRUE, list |-> <<>>]
             ELSE [throws |-> FALSE, list |-> <<>>]
        ELSE IF json.type = "array"
        THEN [throws |-> FALSE, list |-> json.text]
        ELSE [throws |-> FALSE, list |-> <<>>]

\* The port tables the server may hold (the rows of /open/port).
PortTables ==
    { <<>>,
      << Port("1", JsString(<<"[", "a", ",", "b", ",", "c", "]">>)) >>,
      << Port("1", JsString(<<"{", "}">>)),
         Port("2", JsArray(<< [code |-> "a"], [code |-> "b"] >>)) >>,
      << Port("1", JsString(<<"[", "a">>)),
         Port("2", JsString(<<"[", "b", "]">>)),
         Port("3", Undefined) >> }

\* The arguments getPortCCTVImages is called with.
PortArgs == {NullPort} \cup UNION { {t[i] : i \in 1..Len(t)} : t \in PortTables }

ListPath == <<"/open/port">>

MonitorPicPath == <<"/open/port/getPortMonitorPic">>

\* The request data of getMonitorPic (lines 215-219).
MonitorPicQuery(port, camera) ==
    JsObject(<<"{", "p", ":", port.id, ",", "c", ":", camera.code, "}">>)

\* state: "Idle", "Listing" (awaiting getPortList), "Camera" (awaiting
\* getMonitorPic for camera k of port p), "Returned", "Thrown".  table is
\* the server's port table; call the latest call the batch made.
IdleBatch ==
    [ fn |-> "none", state |-> "Idle", table |-> <<>>, ports |-> <<>>, p |-> 0, k |-> 0,
      cameras |-> <<>>, results |-> <<>>, call |-> 0, error |-> "" ]

\* result.rows || [] (line 187): the rows of the port document, no rows of
\* any other value.
RowsOf(value, table) == IF value = RowsObject THEN table ELSE <<>>

\* picResult.data?.picUrl || picResult.videoPic || null (line 254), <<>>
\* standing for null.
ImageUrlOf(value) == IF value = PicObject THEN <<"u">> ELSE <<>>

\* The element pushed for a camera (lines 250-263) from the outcome of its
\* getMonitorPic call; call names that call.
CameraEntry(camera, c, outcome) ==
    IF outcome.kind = "returned"
    THEN [code |-> camera.code, call |-> c, imageUrl |-> ImageUrlOf(outcome.value),
          error |-> ""]
    ELSE [code |-> camera.code, call |-> c, imageUrl |-> <<>>,
          error |-> outcome.error.name]

\* Variant: the element is put in front (unshift).
RecordCamera_InFront(cameras, entry) == <<entry>> \o cameras

\* cameras.push (lines 250, 257).
RecordCamera(cameras, entry) == Append(cameras, entry)

\* The value getPortCCTVImages returns (lines 267-276).
PortResult(port, cameras) == [portId |-> port.id, cameras |-> cameras, error |-> ""]

\* The element getAllPortsCCTV pushes when getPortCCTVImages threw (293-298).
PortError(port, error) == [portId |-> port.id, cameras |-> <<>>, error |-> error]

\* The loop of getAllPortsCCTV from port b.p on, up to its next await of a
\* getMonitorPic call or its return.
RECURSIVE AdvancePorts(_)
AdvancePorts(b) ==
    IF b.p > Len(b.ports) THEN [b EXCEPT !.state = "Returned"]
    ELSE IF entryAndExitList(b.ports[b.p]).throws
    THEN AdvancePorts([ b EXCEPT !.results = Append(@, PortError(b.ports[b.p], "TypeError")),
                                 !.p = @ + 1 ])
    ELSE IF entryAndExitList(b.ports[b.p]).list = <<>>
    THEN AdvancePorts([ b EXCEPT !.results = Append(@, PortResult(b.ports[b.p], <<>>)),
                                 !.p = @ + 1 ])
    ELSE [b EXCEPT !.state = "Camera", !.k = 1, !.cameras = <<>>]

\* getPortCCTVImages called by itself, up to its first await or its end.
EnterPort(b, port) ==
    IF port.null THEN [b EXCEPT !.state = "Thrown", !.error = "Error"]
    ELSE IF entryAndExitList(port).throws
    THEN [b EXCEPT !.state = "Thrown", !.error = "TypeError", !.ports = <<port>>, !.p = 1]
    ELSE IF entryAndExitList(port).list = <<>>
    THEN [b EXCEPT !.state = "Returned", !.results = <<PortResult(port, <<>>)>>,
                   !.ports = <<port>>, !.p = 1]
    ELSE [b EXCEPT !.state = "Camera", !.ports = <<port>>, !.p = 1, !.k = 1]

\* The camera the batch is at.
CameraAt(b) == entryAndExitList(b.ports[b.p]).list[b.k]

\* The batch once all cameras of port b.p are recorded.
PortDone(b) ==
    IF b.fn = "getPortCCTVImages"
    THEN [b EXCEPT !.state = "Returned", !.results = <<PortResult(b.ports[b.p], b.cameras)>>]
    ELSE AdvancePorts([ b EXCEPT !.results = Append(@, PortResult(b.ports[b.p], b.cameras)),
                                 !.p = @ + 1 ])

\* The batch with the element of the camera it is at recorded.
Recorded(b, outcome) ==
    [b EXCEPT !.cameras = RecordCamera(@, CameraEntry(CameraAt(b), b.call, outcome))]

\* Variant: no try/catch around the getMonitorPic call.
AfterCamera_NoCatch(b, outcome) ==
    IF outcome.kind = "thrown"
    THEN [b EXCEPT !.state = "Thrown", !.error = outcome.error.name]
    ELSE IF b.k < Len(entryAndExitList(b.ports[b.p]).list)
    THEN [Recorded(b, outcome) EXCEPT !.k = @ + 1]
    ELSE PortDone(Recorded(b, outcome))

\* The loop body of getPortCCTVImages after its await (lines 249-264):
\* the outcome is recorded, thrown or not, and the loop goes on.
AfterCamera(b, outcome) ==
    IF b.k < Len(entryAndExitList(b.ports[b.p]).list)
    THEN [Recorded(b, outcome) EXCEPT !.k = @ + 1]
    ELSE PortDone(Recorded(b, outcome))

\* getAllPortsCCTV after its await of getPortList (line 284, outside any
\* try): an error of the call ends the batch.
AfterList(b, outcome) ==
    IF outcome.kind = "thrown"
    THEN [b EXCEPT !.state = "Thrown", !.error = outcome.error.name]
    ELSE AdvancePorts([b EXCEPT !.ports = RowsOf(outcome.value, b.table), !.p = 1])

AfterCall(b, outcome) ==
    IF b.state = "Listing" THEN AfterList(b, outcome) ELSE AfterCamera(b, outcome)

BatchPath(b) == IF b.state = "Listing" THEN ListPath ELSE MonitorPicPath

BatchQuery(b) ==
    IF b.state = "Listing" THEN PortQuery ELSE MonitorPicQuery(b.ports[b.p], CameraAt(b))

\* Call c of the batch starts: the synchronous part of request (146-166).
BatchIssue(b, cs, c, call) ==
    /\ batch' = [b EXCEPT !.call = c]
    /\ calls' = [cs EXCEPT ![c] = call]
    /\ wire' = IF call.state = "Sent"
               THEN Append(wire, RequestExchange(c, call, BatchPath(b))) ELSE wire
    /\ busy' = (busy \/ call.state = "Hung")
    /\ clock' = call.reads[2]
    /\ rngCount' = call.draws[2]
    /\ UNCHANGED seed

\* The batch b runs on to its next await, where it starts its next call, or
\* it has ended.
BatchProceed(b, cs, d) ==
    IF b.state \in {"Listing", "Camera"}
    THEN BatchIssue(b, cs, b.call + 1,
                    BuiltCall("cctvRequest", BatchQuery(b), clock, clock + d))
    ELSE /\ batch' = b
         /\ calls' = cs
         /\ UNCHANGED <<clock, seed, rngCount, wire, busy>>

GetAllPortsCCTV(d) ==
    /\ ~busy
    /\ batch.state = "Idle"
    /\ ClockSteps(d)
    /\ BatchProceed([batch EXCEPT !.fn = "getAllPortsCCTV", !.state = "Listing"], calls, d)

GetPortCCTVImages(port, d) ==
    /\ ~busy
    /\ batch.state = "Idle"
    /\ ClockSteps(d)
    /\ BatchProceed(EnterPort([batch EXCEPT !.fn = "getPortCCTVImages"], port), calls, d)

\* The call the batch awaits is with axios.
BatchWaiting ==
    /\ ~busy
    /\ batch.state \in {"Listing", "Camera"}
    /\ calls[batch.call].state = "Sent"

\* The call in flight ended as settled shows: the batch runs on.
BatchSettled(settled, d) ==
    BatchProceed(AfterCall(batch, settled.outcome), [calls EXCEPT ![batch.call] = settled], d)

\* What the server answers a call of the batch with.
BatchReplies == {"json", "pic", "malformed"}

BatchResolve(reply, bad, d) ==
    /\ BatchWaiting
    /\ ClockSteps(d)
    /\ BatchSettled(cctvRequestOnResolve(calls[batch.call],
                                         ResponseBody(ExchangeOf(batch.call), reply), bad), d)

BatchReject(code, d) ==
    /\ BatchWaiting
    /\ ClockSteps(d)
    /\ BatchSettled(onReject(calls[batch.call], code), d)

BatchTimeout(d) ==
    /\ BatchWaiting
    /\ ClockSteps(d)
    /\ ExchangeOf(batch.call).timeout > 0
    /\ BatchSettled(onReject(calls[batch.call], "ECONNABORTED"), d)

Init ==
    /\ clock = ClockStart
    /\ seed \in Seeds
    /\ rngCount = 0
    /\ calls = [c \in CallIds |-> IdleCall]
    /\ wire = <<>>
    /\ busy = FALSE
    /\ batch = IdleBatch

Next ==
    \/ Tick
    \/ \E c \in CallIds, path \in Paths, data \in RequestData, d \in 0..1 :
          Request(c, path, data, d)
    \/ \E c \in CallIds, path \in Paths, data \in RequestData, d \in 0..1 :
          CctvRequest(c, path, data, d)
    \/ \E c \in CallIds, fileId \in FileIds, d \in 0..1 : DownloadFile(c, fileId, d)
    \/ \E c \in CallIds, reply \in Replies, bad \in Sm4BadOutcomes :
          RequestResolve(c, reply, bad)
    \/ \E c \in CallIds, reply \in Replies, bad \in Sm4BadOutcomes :
          CctvRequestResolve(c, reply, bad)
    \/ \E c \in CallIds, body \in DownloadBodies : DownloadFileResolve(c, body)
    \/ \E c \in CallIds, code \in RejectCodes : AxiosReject(c, code)
    \/ \E c \in CallIds : AxiosTimeout(c)

Spec == Init /\ [][Next]_vars

\* The timer of axios fires once armed; the server need never answer.
FairSpec == Spec /\ \A c \in CallIds : WF_vars(AxiosTimeout(c))

\* The CCTV client run as a program or used through its batch functions:
\* one batch over one of the port tables.
BatchInit ==
    /\ clock = ClockStart
    /\ seed \in Seeds
    /\ rngCount = 0
    /\ calls = [c \in BatchCallIds |-> IdleCall]
    /\ wire = <<>>
    /\ busy = FALSE
    /\ \E table \in PortTables : batch = [IdleBatch EXCEPT !.table = table]

BatchNext ==
    \/ Tick
    \/ \E d \in 0..1 : GetAllPortsCCTV(d)
    \/ \E port \in PortArgs, d \in 0..1 : GetPortCCTVImages(port, d)
    \/ \E reply \in BatchReplies, bad \in Sm4BadOutcomes, d \in 0..1 :
          BatchResolve(reply, bad, d)
    \/ \E code \in RejectCodes, d \in 0..1 : BatchReject(code, d)
    \/ \E d \in 0..1 : BatchTimeout(d)

BatchSpec == BatchInit /\ [][BatchNext]_vars

(***************************************************************************)
(* Properties.                                                             *)
(***************************************************************************)
Exchanges == {wire[k] : k \in 1..Len(wire)}

IsSend(c) == calls[c].fn \in {"request", "cctvRequest"}

\* The call got a response body from axios (it was sent and not rejected).
Resolved(c) ==
    /\ calls[c].state = "Done"
    /\ calls[c].encryptedData # Undefined
    /\ calls[c].outcome.error.name # "AxiosError"

NonEmptyString(v) == v.type = "string" /\ Length(v) > 0

\* C1: a send call that receives a non-empty string body decrypts it once,
\* with the key and iv that the same call generated and encrypted its own
\* request body with.
C1_DecryptsWithOwnKey ==
    \A c \in CallIds :
        (IsSend(c) /\ Resolved(c) /\ NonEmptyString(calls[c].response)) =>
            /\ Len(calls[c].decryptCalls) = 1
            /\ calls[c].decryptCalls[1].data = calls[c].response
            /\ calls[c].decryptCalls[1].key = ExchangeOf(c).data.key
            /\ calls[c].decryptCalls[1].iv = ExchangeOf(c).data.iv
            /\ calls[c].decryptCalls[1].key = calls[c].key
            /\ calls[c].decryptCalls[1].iv = calls[c].iv

\* A send call decrypted a body while another call holds other key material.
C1_Witness ==
    \E c, b \in CallIds :
        /\ IsSend(c) /\ Resolved(c) /\ NonEmptyString(calls[c].response)
        /\ calls[c].outcome.kind = "returned"
        /\ calls[b].state \in {"Sent", "Done"}
        /\ calls[b].key # calls[c].key
        /\ calls[c].key # calls[c].iv

\* C2 (as stated): no two exchanges share a nonce, a timestamp or a key/iv.
C2_NoValueReused ==
    \A i, j \in 1..Len(wire) :
        i # j =>
            /\ wire[i].headers["x-aep-nonce"] # wire[j].headers["x-aep-nonce"]
            /\ wire[i].headers["x-ka-nonce"] # wire[j].headers["x-ka-nonce"]
            /\ wire[i].headers["x-aep-timestamp"] # wire[j].headers["x-aep-timestamp"]
            /\ wire[i].headers["x-ka-timestamp"] # wire[j].headers["x-ka-timestamp"]
            /\ <<wire[i].data.key, wire[i].data.iv>> # <<wire[j].data.key, wire[j].data.iv>>

\* C2 (amended): every call puts at most one exchange on the wire, built
\* from its own clock reads and its own draws of the random source, which
\* no other call reads again.
C2_FreshContextPerExchange ==
    /\ \A i, j \in 1..Len(wire) : i # j => wire[i].call # wire[j].call
    /\ \A i \in 1..Len(wire) :
          LET call == calls[wire[i].call]
              h == wire[i].headers
          IN  /\ call.state \in {"Sent", "Done"}
              /\ call.draws[1] < call.draws[2]
              /\ h["x-aep-timestamp"] = ToFixed3(call.reads[1])
              /\ h["x-ka-timestamp"] = NatToString(call.reads[2] \div 1000)
              /\ h["x-aep-nonce"] = GenerateUUID(seed, call.draws[1])
              /\ h["x-ka-nonce"] = GenerateUUID(seed, call.draws[1] + UUIDDraws)
              /\ wire[i].data.key = RandomHex(seed, KeyHexLength,
                                              call.draws[1] + 2 * UUIDDraws).result
              /\ wire[i].data.iv # <<>>
    /\ \A i, j \in 1..Len(wire) :
          i < j =>
              /\ calls[wire[i].call].draws[2] <= calls[wire[j].call].draws[1]
              /\ calls[wire[i].call].reads[2] <= calls[wire[j].call].reads[1]

\* Two exchanges are on the wire, the second after a failure of the first,
\* and the stream gave the second call other nonces.
C2_Witness ==
    /\ Len(wire) = 2
    /\ calls[wire[1].call].outcome.kind = "thrown"
    /\ wire[1].headers["x-ka-nonce"] # wire[2].headers["x-ka-nonce"]
    /\ wire[1].headers["x-ka-timestamp"] = wire[2].headers["x-ka-timestamp"]

\* C3: in every envelope the inner timestamp header is the integer-seconds
\* part of the outer timestamp header.
C3_SingleClockCapture ==
    \A e \in Exchanges :
        e.headers["x-ka-timestamp"] = IntegerPart(e.headers["x-aep-timestamp"])

OuterHeaderNames == {"x-aep-appkey", "x-aep-timestamp", "x-aep-nonce", "x-aep-signature"}

\* C4: in every envelope the outer signature is the uppercase hex SHA-256
\* digest of timestamp + appKey + nonce + secret + timestamp over the
\* envelope's own outer timestamp and nonce headers and the configured
\* appKey and secret, and the outer layer contributes exactly its four
\* headers.
C4_OuterSignature ==
    \A e \in Exchanges :
        LET h == e.headers
        IN  /\ h["x-aep-signature"] =
                  [ alg |-> "SHA256", hexcase |-> "upper",
                    input |-> h["x-aep-timestamp"] \o CONFIG.aepAppKey
                                \o h["x-aep-nonce"] \o CONFIG.aepSecret
                                \o h["x-aep-timestamp"] ]
            /\ h["x-aep-appkey"] = CONFIG.aepAppKey
            /\ DOMAIN calls[e.call].aepHeaders = OuterHeaderNames
            /\ \A n \in OuterHeaderNames : h[n] = calls[e.call].aepHeaders[n]

\* An envelope of each kind of call is on the wire.
C4_Witness ==
    /\ \E e \in Exchanges : calls[e.call].fn = "request"
    /\ \E e \in Exchanges : calls[e.call].fn = "downloadFile"

\* C5: in every envelope the inner signature is the uppercase hex SM3 hash
\* of timestamp + nonce + timestamp over the envelope's own inner timestamp
\* and nonce headers; equal timestamp and nonce give equal signatures; and
\* it differs from the outer signature of the envelope, in algorithm and in
\* preimage.
C5_InnerSignature ==
    /\ \A e \in Exchanges :
          LET h == e.headers
          IN  /\ h["x-ka-signature"] =
                    [ alg |-> "SM3", hexcase |-> "upper",
                      input |-> h["x-ka-timestamp"] \o h["x-ka-nonce"]
                                  \o h["x-ka-timestamp"] ]
              /\ h["x-ka-signature"] # h["x-aep-signature"]
              /\ h["x-ka-signature"].input # h["x-aep-signature"].input
    /\ \A e, f \in Exchanges :
          ( /\ e.headers["x-ka-timestamp"] = f.headers["x-ka-timestamp"]
            /\ e.headers["x-ka-nonce"] = f.headers["x-ka-nonce"] )
              => e.headers["x-ka-signature"] = f.headers["x-ka-signature"]

\* An envelope whose two layers got the same nonce is on the wire, next to
\* one with another inner nonce.
C5_Witness ==
    /\ \E e \in Exchanges : e.headers["x-ka-nonce"] = e.headers["x-aep-nonce"]
    /\ Len(wire) = 2

\* C6: in every envelope the wrapped-key header is the marker 04 followed by
\* the uppercase SM2 wrap of key + "&" + iv under the configured public key,
\* and unwrapping it yields the key and iv the envelope's body is encrypted
\* with.
C6_WrappedKeyRoundTrip ==
    \A e \in Exchanges :
        LET t == e.headers["x-ka-t"]
            km == ServerUnwrap(t)
        IN  /\ t.marker = <<"0", "4">>
            /\ t.body = [ alg |-> "SM2", pub |-> CONFIG.sm2PublicKey, hexcase |-> "upper",
                          msg |-> e.data.key \o <<"&">> \o e.data.iv ]
            /\ km.ok
            /\ km.key = e.data.key
            /\ km.iv = e.data.iv
            /\ e.data.enc
            /\ Len(km.key) = KeyHexLength

\* Two envelopes with different key material are on the wire, one of them
\* with a key that differs from its iv.
C6_Witness ==
    \E e, f \in Exchanges :
        /\ e.data.key # f.data.key
        /\ e.data.key # e.data.iv

\* C7: a send call whose non-empty string body decrypted returns the parsed
\* JSON value of the decrypted text when it parses, the decrypted string
\* itself when it does not.
C7_ParseOrRawString ==
    \A c \in CallIds :
        (IsSend(c) /\ Resolved(c) /\ Len(calls[c].parseCalls) > 0) =>
            LET text == calls[c].parseCalls[1]
            IN  calls[c].outcome =
                    IF JsonParses(text) THEN Returned(JsonParse(text))
                    ELSE Returned(JsString(text))

\* C8: a send call that gets an empty or non-string body returns that body
\* and neither decrypts nor parses.
C8_PassThrough ==
    \A c \in CallIds :
        (IsSend(c) /\ Resolved(c) /\ ~NonEmptyString(calls[c].response)) =>
            /\ calls[c].outcome = Returned(calls[c].response)
            /\ calls[c].decryptCalls = <<>>
            /\ calls[c].parseCalls = <<>>

\* One send call returned an empty string, another an object.
C8_Witness ==
    \E c, b \in CallIds :
        /\ IsSend(c) /\ Resolved(c) /\ calls[c].response = JsString(<<>>)
        /\ IsSend(b) /\ Resolved(b) /\ calls[b].response.type = "object"

\* The body is a non-empty string that is no ciphertext under the call's
\* key material.
MalformedFor(c) ==
    /\ NonEmptyString(calls[c].response)
    /\ ~( /\ calls[c].response.enc
          /\ calls[c].response.key = calls[c].key
          /\ calls[c].response.iv = calls[c].iv )

\* C9: a send call that gets malformed ciphertext fails with a
\* DecryptionError.
C9_DecryptionError ==
    \A c \in CallIds :
        (IsSend(c) /\ Resolved(c) /\ MalformedFor(c)) =>
            /\ calls[c].outcome.kind = "thrown"
            /\ calls[c].outcome.error.name = "DecryptionError"

\* C10: no call stays in the Sent state forever (as long as the thread is
\* not stuck in a loop of another call).
C10_NoCallStaysSent ==
    \A c \in CallIds : (calls[c].state = "Sent") ~> (calls[c].state = "Done" \/ busy)

\* The cameras of a port, in the order of its list.
CamerasOf(port) == entryAndExitList(port).list

\* The element recorded for a camera tells the outcome of its own call.
EntryTellsCall(entry) ==
    /\ entry.call \in BatchCallIds
    /\ calls[entry.call].state = "Done"
    /\ \E k \in 1..Len(wire) : wire[k].call = entry.call
    /\ IF calls[entry.call].outcome.kind = "returned"
       THEN entry.error = ""
       ELSE entry.error # "" /\ entry.error = calls[entry.call].outcome.error.name

\* The elements recorded for a port: one per camera of the port, each from
\* a call of its own.
OnePerCamera(port, cameras) ==
    /\ Len(cameras) = Len(CamerasOf(port))
    /\ \A i \in 1..Len(cameras) : EntryTellsCall(cameras[i])
    /\ \A i, j \in 1..Len(cameras) : i # j => cameras[i].call # cameras[j].call
    /\ \A i \in 1..Len(cameras) : \E j \in 1..Len(cameras) : cameras[j].code = CamerasOf(port)[i].code

\* C11: a batch is never ended by the failure of a camera's call (it throws
\* only when the listing call fails or its own argument is unusable), and a
\* batch that returned holds one result per port and, in it, one recorded
\* outcome, success or error, per camera, each from a call that was made.
C11_BatchFailureIsolation ==
    /\ batch.state = "Thrown" =>
          \/ /\ batch.fn = "getAllPortsCCTV"
             /\ batch.call = 1
             /\ calls[1].outcome.kind = "thrown"
             /\ batch.results = <<>>
          \/ /\ batch.fn = "getPortCCTVImages"
             /\ batch.call = 0
    /\ batch.state = "Returned" =>
          /\ Len(batch.results) = Len(batch.ports)
          /\ \A j \in 1..Len(batch.results) :
                /\ batch.results[j].portId = batch.ports[j].id
                /\ IF entryAndExitList(batch.ports[j]).throws
                   THEN batch.results[j].error # "" /\ batch.results[j].cameras = <<>>
                   ELSE /\ batch.results[j].error = ""
                        /\ OnePerCamera(batch.ports[j], batch.results[j].cameras)
    /\ batch.state = "Camera" =>
          /\ Len(batch.cameras) = batch.k - 1
          /\ \A i \in 1..Len(batch.cameras) : EntryTellsCall(batch.cameras[i])

\* A batch over three cameras returned: the call of the second timed out,
\* the other two succeeded, each with another nonce than the failed one.
C11_Witness ==
    /\ batch.state = "Returned"
    /\ \E j \in 1..Len(batch.results) :
          LET cameras == batch.results[j].cameras
          IN  /\ Len(cameras) = 3
              /\ cameras[1].error = ""
              /\ cameras[2].error = "AxiosError"
              /\ calls[cameras[2].call].outcome.error.code = "ECONNABORTED"
              /\ cameras[3].error = ""
              /\ \A a \in {1, 3} :
                    ExchangeOf(cameras[a].call).headers["x-ka-nonce"]
                        # ExchangeOf(cameras[2].call).headers["x-ka-nonce"]

InnerHeaderNames == {"x-ka-timestamp", "x-ka-nonce", "x-ka-signature", "x-ka-t"}

\* C12: the envelope of a download carries the headers of a send (the four
\* outer, the four inner and the fixed content headers, with the same
\* values for the fixed ones) and the file id header, its body is the
\* encrypted empty object, and the call returns the response it got without
\* decrypting it.
C12_DownloadSameConstruction ==
    \A e \in Exchanges :
        calls[e.call].fn = "downloadFile" =>
            /\ DOMAIN e.headers =
                  OuterHeaderNames \cup InnerHeaderNames \cup DOMAIN RequestFixedHeaders
                      \cup {"x-ka-fileid"}
            /\ \A h \in DOMAIN RequestFixedHeaders : e.headers[h] = RequestFixedHeaders[h]
            /\ e.data.enc /\ e.data.text = EmptyObject.text
            /\ e.data.key = calls[e.call].key /\ e.data.iv = calls[e.call].iv
            /\ Resolved(e.call) =>
                  /\ calls[e.call].outcome = Returned(calls[e.call].response)
                  /\ calls[e.call].decryptCalls = <<>>

\* The call put an exchange on the wire.
HasExchange(c) == \E k \in 1..Len(wire) : wire[k].call = c

\* C13: whatever the interleaving of the send calls, the envelope of each
\* carries the nonces, timestamps and wrapped key made from the call's own
\* clock reads and draws, and a call that gets a body encrypted under the
\* key material of its own envelope ends with the value of that body's
\* plaintext, whatever the other calls did in between.
C13_ConcurrentCallsIndependent ==
    \A c \in CallIds :
        (IsSend(c) /\ HasExchange(c)) =>
            LET e == ExchangeOf(c)
                km == ServerUnwrap(e.headers["x-ka-t"])
                body == calls[c].response
            IN  /\ e.headers["x-aep-nonce"] = GenerateUUID(seed, calls[c].draws[1])
                /\ e.headers["x-ka-nonce"] = GenerateUUID(seed, calls[c].draws[1] + UUIDDraws)
                /\ e.headers["x-aep-timestamp"] = ToFixed3(calls[c].reads[1])
                /\ e.headers["x-ka-timestamp"] = NatToString(calls[c].reads[2] \div 1000)
                /\ km.key = calls[c].key /\ km.iv = calls[c].iv
                /\ \A b \in CallIds :
                      (b # c /\ HasExchange(b)) =>
                          \/ calls[b].draws[2] <= calls[c].draws[1]
                          \/ calls[c].draws[2] <= calls[b].draws[1]
                /\ (Resolved(c) /\ body.enc /\ body.key = km.key /\ body.iv = km.iv) =>
                      calls[c].outcome =
                          IF JsonParses(body.text) THEN Returned(JsonParse(body.text))
                          ELSE IF calls[c].fn = "request" THEN Returned(JsString(body.text))
                          ELSE Thrown("SyntaxError", "")

\* Two send calls with different key material overlap: the one started
\* second has decrypted its answer while the first is still in flight.
C13_Witness ==
    /\ IsSend(1) /\ IsSend(2)
    /\ calls[1].key # calls[2].key
    /\ calls[1].state = "Sent"
    /\ Resolved(2)
    /\ calls[2].response.enc
    /\ calls[2].outcome = Returned(RowsObject)

\* The body is the plaintext of the call's request body encrypted again
\* under the key material of the call's envelope.
IsEcho(c) ==
    LET e == ExchangeOf(c)
        km == ServerUnwrap(e.headers["x-ka-t"])
    IN  /\ calls[c].response.enc
        /\ calls[c].response.key = km.key
        /\ calls[c].response.iv = km.iv
        /\ calls[c].response.text = e.data.text

C16_KeyLeavesOnlyWrapped ==
    \A c \in CallIds :
        calls[c].state \in {"Sent", "Done"} =>
            \A i \in 1..Len(calls[c].logged) :
                /\ calls[c].logged[i].value # calls[c].key
                /\ calls[c].logged[i].value # calls[c].iv

\* C17: a send call that reached the network made exactly one exchange and,
\* once ended, has one terminal outcome, which is a success (a returned
\* value), a network error (the rejection of axios) or a decryption error
\* (an error thrown by the decryption step).
C17_LinearPipeline ==
    \A c \in CallIds :
        (IsSend(c) /\ HasExchange(c)) =>
            /\ Cardinality({k \in 1..Len(wire) : wire[k].call = c}) = 1
            /\ calls[c].state \in {"Sent", "Done"}
            /\ calls[c].state = "Sent" <=> calls[c].outcome = Pending
            /\ calls[c].state = "Done" =>
                  \/ calls[c].outcome.kind = "returned"
                  \/ /\ calls[c].outcome.kind = "thrown"
                     /\ calls[c].outcome.error.name = "AxiosError"
                  \/ /\ calls[c].outcome.kind = "thrown"
                     /\ Len(calls[c].decryptCalls) = 1
                     /\ calls[c].parseCalls = <<>>

InCameraOrder(port, cameras) ==
    /\ Len(cameras) <= Len(CamerasOf(port))
    /\ \A i \in 1..Len(cameras) : cameras[i].code = CamerasOf(port)[i].code
    /\ \A i \in 1..(Len(cameras) - 1) : cameras[i].call < cameras[i + 1].call

\* C19: the batch has at most one call in flight: every call it made but
\* the latest has ended, the calls are made in the order of the items, and
\* the results are in the order of the ports and, within a port, of its
\* cameras.
C19_BatchSequential ==
    /\ Cardinality({c \in BatchCallIds : calls[c].state = "Sent"}) <= 1
    /\ \A k \in 1..Len(wire) :
          /\ wire[k].call = k
          /\ k < Len(wire) => calls[k].state = "Done"
    /\ batch.state = "Camera" => InCameraOrder(batch.ports[batch.p], batch.cameras)
    /\ Len(batch.results) <= Len(batch.ports)
    /\ \A j \in 1..Len(batch.results) :
          /\ batch.results[j].portId = batch.ports[j].id
          /\ InCameraOrder(batch.ports[j], batch.results[j].cameras)
          /\ \A i \in 1..(j - 1) :
                \A a \in 1..Len(batch.results[i].cameras),
                   b \in 1..Len(batch.results[j].cameras) :
                    batch.results[i].cameras[a].call < batch.results[j].cameras[b].call

\* getAllPortsCCTV is at the third camera of a port, whose call is in
\* flight, the listing call and the calls of the first two cameras having
\* ended, one of them with an error.
C19_Witness ==
    /\ batch.fn = "getAllPortsCCTV"
    /\ batch.state = "Camera"
    /\ batch.k = 3
    /\ Len(batch.cameras) = 2
    /\ batch.cameras[1].error # ""
    /\ Len(wire) = 4
    /\ calls[batch.call].state = "Sent"

\* C20: a call whose body cannot be encrypted ends with the error before
\* the network step: it throws, puts no exchange on the wire, then or
\* later, and every exchange on the wire carries a body that was encrypted.
C20_FailsBeforeNetwork ==
    /\ \A c \in CallIds :
          (calls[c].state \notin {"Idle", "Hung"} /\ calls[c].data = Cyclic) =>
              /\ calls[c].state = "Done"
              /\ calls[c].outcome = Thrown("TypeError", "")
              /\ ~HasExchange(c)
              /\ calls[c].response = Undefined
    /\ \A e \in Exchanges : e.data.enc /\ calls[e.call].data # Cyclic
    /\ Len(wire) <= Cardinality({c \in CallIds : calls[c].state \in {"Sent", "Done"}})

\* A call with a body that cannot be serialized has thrown; the call made
\* after it is the only one on the wire.
C20_Witness ==
    /\ calls[1].data = Cyclic
    /\ calls[1].outcome.kind = "thrown"
    /\ calls[2].state = "Sent"
    /\ Len(wire) = 1
    /\ wire[1].call = 2

====
